---- MODULE Spec2Model ----
(***************************************************************************)
(* Model of the local code execution engine of the Stax AI tutor backend   *)
(* (backend/app/services/code_execution_service.py).                       *)
(*                                                                         *)
(* One execute_code call is a coroutine; its code between two awaits runs   *)
(* atomically on the event loop, so every action below is one such         *)
(* segment.  The submitted program, the toolchain and the filesystem are    *)
(* the environment: a submitted source is identified with what its         *)
(* compiler run and its own run do, and launch faults, decode faults and    *)
(* rmtree faults are chosen nondeterministically.                          *)
(***************************************************************************)
EXTENDS Integers, Sequences, FiniteSets, TLC

(***************************************************************************)
(* Bounds of the model.                                                    *)
(***************************************************************************)
MaxSecs == 8        \* longest running time of a halting submitted program
MaxDirs == 2        \* directory names mkdtemp can draw from
MaxCases == 2       \* longest list of test cases given to check_solution
MaxScore == 2       \* highest score a duel is followed to
MaxAwards == 2      \* XP awards after which no further finish_duel is followed

(***************************************************************************)
(* Optional[T]: None is the empty tuple, a present value x is <<x>>.       *)
(***************************************************************************)
None == <<>>
Some(x) == <<x>>
Get(o) == o[1]

(***************************************************************************)
(* Text.  A str is a sequence of characters, each character a one-token    *)
(* string; the fixed fragments of an f-string are tokens of their own.     *)
(* bytes are sequences of 0..255.                                          *)
(***************************************************************************)
CodePoints == {10, 32, 104, 105, 233}

Chr(cp) ==
    CASE cp = 10  -> "\n"
      [] cp = 32  -> " "
      [] cp = 104 -> "h"
      [] cp = 105 -> "i"
      [] cp = 233 -> "U+00E9"

Ord(ch) == CHOOSE cp \in CodePoints : Chr(cp) = ch

\* bytes.decode(): strict UTF-8, one and two byte forms.
RECURSIVE Utf8Valid(_)
Utf8Valid(b) ==
    IF b = <<>> THEN TRUE
    ELSE IF b[1] < 128 THEN Utf8Valid(Tail(b))
    ELSE IF b[1] >= 194 /\ b[1] <= 223 /\ Len(b) >= 2
            /\ b[2] >= 128 /\ b[2] <= 191
         THEN Utf8Valid(Tail(Tail(b)))
    ELSE FALSE

RECURSIVE Utf8Decode(_)
Utf8Decode(b) ==
    IF b = <<>> THEN <<>>
    ELSE IF b[1] < 128 THEN <<Chr(b[1])>> \o Utf8Decode(Tail(b))
    ELSE <<Chr((b[1] - 192) * 64 + (b[2] - 128))>> \o Utf8Decode(Tail(Tail(b)))

\* str.encode(): UTF-8.
RECURSIVE Utf8Encode(_)
Utf8Encode(s) ==
    IF s = <<>> THEN <<>>
    ELSE LET cp == Ord(s[1]) IN
         (IF cp < 128 THEN <<cp>> ELSE <<192 + (cp \div 64), 128 + (cp % 64)>>)
         \o Utf8Encode(Tail(s))

(***************************************************************************)
(* Program constants.                                                      *)
(***************************************************************************)
RunTimeout == 5
CompileTimeout == 30

LANGUAGE_MAP ==
    [python |-> 71, c |-> 50, cpp |-> 54, java |-> 62, javascript |-> 63]

\* Variant: the second table has no entry for javascript.
lang_configNoJavascript ==
    [python     |-> [ext |-> ".py",   compile |-> <<>>,            run |-> <<"python_exe">>],
     c          |-> [ext |-> ".c",    compile |-> <<"gcc", "-o">>, run |-> <<>>],
     cpp        |-> [ext |-> ".cpp",  compile |-> <<"g++", "-o">>, run |-> <<>>],
     java       |-> [ext |-> ".java", compile |-> <<"javac">>,     run |-> <<"java">>]]

\* compile None is the empty command.
lang_config ==
    [python     |-> [ext |-> ".py",   compile |-> <<>>,            run |-> <<"python_exe">>],
     javascript |-> [ext |-> ".js",   compile |-> <<>>,            run |-> <<"node">>],
     c          |-> [ext |-> ".c",    compile |-> <<"gcc", "-o">>, run |-> <<>>],
     cpp        |-> [ext |-> ".cpp",  compile |-> <<"g++", "-o">>, run |-> <<>>],
     java       |-> [ext |-> ".java", compile |-> <<"javac">>,     run |-> <<"java">>]]

ExecutionResult(stdout, stderr, compile_output, status, status_id, exit_code) ==
    [stdout |-> stdout, stderr |-> stderr, compile_output |-> compile_output,
     status |-> status, status_id |-> status_id,
     time |-> None, memory |-> None, exit_code |-> exit_code]

(***************************************************************************)
(* Inputs.                                                                 *)
(***************************************************************************)
Calls == {1, 2}

\* The names tempfile.mkdtemp() can return, and os.path.join.
DirNames == {"/tmp/tmp" \o ToString(i) : i \in 1..MaxDirs}
join(dir, name) == dir \o "/" \o name

Languages == DOMAIN LANGUAGE_MAP \cup {"ruby", "Python"}

TimeLimits == {RunTimeout - 2, RunTimeout, RunTimeout + 2}

Stdins == {None, Some(<<>>), Some(<<"h", "i">>)}

\* What a process may write to a pipe: nothing, "hi\n", U+00E9, and a byte
\* string that is not UTF-8.
ByteStrings == {<<>>, <<104, 105, 10>>, <<195, 169>>, <<255>>}

ExitCodes == {0, 1}

\* A submitted source, identified with the behaviour of its compiler run
\* (compiled languages only) and of its own run.  Quick programs vary in
\* what they write and return, Timed programs in how long they run.
Quick ==
    [compile_halts : {TRUE}, compile_secs : {1}, compile_exit : {0},
     compile_err : {<<>>},
     run_halts : {TRUE}, run_secs : {0}, run_exit : ExitCodes,
     out : ByteStrings, err : ByteStrings]

Timed ==
    [compile_halts : {TRUE}, compile_secs : {1}, compile_exit : {0},
     compile_err : {<<>>},
     run_halts : {TRUE}, run_secs : 1..MaxSecs, run_exit : ExitCodes,
     out : {<<104, 105, 10>>}, err : {<<>>}]

NonHalting ==
    [compile_halts : {TRUE}, compile_secs : {1}, compile_exit : {0},
     compile_err : {<<>>},
     run_halts : {FALSE}, run_secs : {0}, run_exit : {0},
     out : {<<>>}, err : {<<>>}]

Uncompilable ==
    [compile_halts : {TRUE}, compile_secs : {1}, compile_exit : {1},
     compile_err : ByteStrings,
     run_halts : {TRUE}, run_secs : {0}, run_exit : {0},
     out : {<<>>}, err : {<<>>}]

SlowToCompile ==
    [compile_halts : {TRUE},
     compile_secs : {CompileTimeout, CompileTimeout + 1},
     compile_exit : ExitCodes, compile_err : {<<>>},
     run_halts : {TRUE}, run_secs : {0}, run_exit : {0},
     out : {<<>>}, err : {<<>>}]
    \cup
    [compile_halts : {FALSE}, compile_secs : {0}, compile_exit : {0},
     compile_err : {<<>>},
     run_halts : {TRUE}, run_secs : {0}, run_exit : {0},
     out : {<<>>}, err : {<<>>}]

Sources == Quick \cup Timed \cup NonHalting \cup Uncompilable \cup SlowToCompile

\* What the toolchain does when the file it is given does not exist: it
\* halts at once with exit code 1 and a diagnostic.
MissingFile ==
    [compile_halts |-> TRUE, compile_secs |-> 0, compile_exit |-> 1,
     compile_err |-> <<104, 105, 10>>,
     run_halts |-> TRUE, run_secs |-> 0, run_exit |-> 1,
     out |-> <<>>, err |-> <<104, 105, 10>>]

(***************************************************************************)
(* File names and command lines of _fallback_execute.                      *)
(***************************************************************************)
\* Variant: the source file is written to one fixed directory, whatever
\* directory the call was given.
SourceFileShared(language, temp_dir) ==
    LET shared == CHOOSE d \in DirNames : TRUE IN
    IF language = "java"
    THEN join(shared, "Solution.java")
    ELSE join(shared, "code" \o lang_config[language].ext)

SourceFile(language, temp_dir) ==
    IF language = "java"
    THEN join(temp_dir, "Solution.java")
    ELSE join(temp_dir, "code" \o lang_config[language].ext)

CompileCmd(language, temp_dir) ==
    IF language = "java"
    THEN lang_config[language].compile \o <<SourceFile(language, temp_dir)>>
    ELSE lang_config[language].compile
            \o <<join(temp_dir, "program"), SourceFile(language, temp_dir)>>

RunCmd(language, temp_dir) ==
    IF language \in {"c", "cpp"} THEN <<join(temp_dir, "program")>>
    ELSE IF language = "java" THEN <<"java", "-cp", temp_dir, "Solution">>
    ELSE lang_config[language].run \o <<SourceFile(language, temp_dir)>>

FileNames ==
    {"code" \o lang_config[l].ext : l \in DOMAIN lang_config}
        \cup {"Solution.java", "Solution.class", "program"}

Paths == {join(d, f) : d \in DirNames, f \in FileNames}

\* The toolchain's side of a command line: the file a compiler reads and the
\* artifact it writes, and the file a run command executes.
CompilerInput(cmd) == cmd[Len(cmd)]
CompilerOutput(cmd, cwd) ==
    IF cmd[1] = "javac" THEN join(cwd, "Solution.class") ELSE cmd[3]
RunImage(cmd) ==
    IF Len(cmd) = 1 THEN cmd[1]
    ELSE IF cmd[1] = "java" THEN join(cmd[3], cmd[4] \o ".class")
    ELSE cmd[2]

(***************************************************************************)
(* State.                                                                  *)
(***************************************************************************)
VARIABLES
    pc,              \* per call: where the coroutine is suspended or has ended
    request,         \* per call: the arguments of execute_code
    temp_dir,        \* per call: the directory mkdtemp returned
    compile_process, \* per call: the compiler process
    process,         \* per call: the run process
    exc,             \* per call: the exception raised inside the call, if any
    cleanup,         \* per call: what shutil.rmtree did in the finally block
    result,          \* per call: the ExecutionResult returned
    dirs,            \* filesystem: the directories that exist
    files,           \* filesystem: the content of each file
    cs_pc,           \* check_solution: where the coroutine is
    cs_args,         \* check_solution: its arguments
    case_index,      \* check_solution: i, the index of the current test case
    results,         \* check_solution: the per-case entries built so far
    passed,          \* check_solution: the number of correct cases so far
    executed,        \* check_solution: the execute_code calls it has awaited
    report,          \* check_solution: the dict returned
    sc_pc,           \* submit_code: where the coroutine is
    sc_args,         \* submit_code: the question found and the current user
    submission,      \* submit_code: the dict returned
    users,           \* table users: total_xp, duels_won, duels_lost per user
    duel,            \* table duels: the row of the duel, once created
    last_op          \* the last duel operation called and how it ended

vars == <<pc, request, temp_dir, compile_process, process, exc, cleanup,
          result, dirs, files,
          cs_pc, cs_args, case_index, results, passed, executed, report,
          sc_pc, sc_args, submission, users, duel, last_op>>

\* The state of check_solution, which execute_code never touches.
cs_vars == <<cs_pc, cs_args, case_index, results, passed, executed, report>>

\* The state of submit_code and of the duel operations, and the tables they
\* write.
api_vars == <<sc_pc, sc_args, submission, users, duel, last_op>>

\* The registered users; auth_service creates each with total_xp 0.
Users == {"u1", "u2", "u3"}
NewUser == [total_xp |-> 0, duels_won |-> 0, duels_lost |-> 0]

NoProcess ==
    [state |-> "none", cmd |-> <<>>, cwd |-> "", image |-> None,
     input |-> None, returncode |-> None]

NoException == [at |-> "none", type |-> "none"]

Req(c) == Get(request[c])

Init ==
    /\ pc = [c \in Calls |-> "idle"]
    /\ request = [c \in Calls |-> None]
    /\ temp_dir = [c \in Calls |-> None]
    /\ compile_process = [c \in Calls |-> NoProcess]
    /\ process = [c \in Calls |-> NoProcess]
    /\ exc = [c \in Calls |-> NoException]
    /\ cleanup = [c \in Calls |-> "none"]
    /\ result = [c \in Calls |-> None]
    /\ dirs = {}
    /\ files = [p \in Paths |-> None]
    /\ cs_pc = "idle"
    /\ cs_args = None
    /\ case_index = 0
    /\ results = <<>>
    /\ passed = 0
    /\ executed = <<>>
    /\ report = None
    /\ sc_pc = "idle"
    /\ sc_args = None
    /\ submission = None
    /\ users = [u \in Users |-> NewUser]
    /\ duel = None
    /\ last_op = [op |-> "none", ok |-> TRUE, is_correct |-> FALSE]

(***************************************************************************)
(* The results the code constructs.                                        *)
(***************************************************************************)
\* Variant: the rejection carries an empty stdout instead of none.
UnsupportedLanguageResultWithStdout(language) ==
    ExecutionResult(Some(<<>>), Some(<<"Unsupported language: ", language>>),
                    None, "Error", -1, None)

\* execute_code, language not in LANGUAGE_MAP.
UnsupportedLanguageResult(language) ==
    ExecutionResult(None, Some(<<"Unsupported language: ", language>>), None,
                    "Error", -1, None)

\* _fallback_execute, language not in lang_config.
UnsupportedResult(language) ==
    ExecutionResult(None, Some(<<"Unsupported language: ", language>>), None,
                    "Unsupported", -1, None)

\* Variant: the generic message for an empty compiler stderr is forgotten.
CompilationErrorResultRaw(returncode, compile_err) ==
    ExecutionResult(None, None, Some(Utf8Decode(compile_err)),
                    "Compilation Error", 6, Some(returncode))

\* compile_process.returncode != 0; compile_err is valid UTF-8 or empty.
CompilationErrorResult(returncode, compile_err) ==
    ExecutionResult(None, None,
                    IF compile_err # <<>> THEN Some(Utf8Decode(compile_err))
                                          ELSE Some(<<"Compilation failed">>),
                    "Compilation Error", 6, Some(returncode))

\* Variant: the message names the language instead of the compiler.
CompilerNotFoundResultNoName(language) ==
    ExecutionResult(None,
                    Some(<<"compiler for ", language, " not found.">>),
                    None, "Compiler Not Found", -1, None)

\* except FileNotFoundError around the compile phase.
CompilerNotFoundResult(language) ==
    LET compiler == lang_config[language].compile[1] IN
    ExecutionResult(None,
                    Some(<<compiler, " not found. Please install ", compiler,
                           " to run ", language, " code locally.">>),
                    None, "Compiler Not Found", -1, None)

\* Variant: the run result also reports a compiler output.
RunResultWithCompileOutput(returncode, stdout, stderr) ==
    ExecutionResult(IF stdout # <<>> THEN Some(Utf8Decode(stdout)) ELSE None,
                    IF stderr # <<>> THEN Some(Utf8Decode(stderr)) ELSE None,
                    Some(<<>>),
                    IF returncode = 0 THEN "Accepted" ELSE "Runtime Error",
                    IF returncode = 0 THEN 3 ELSE 11,
                    Some(returncode))

\* Variant: the return code is not looked at.
RunResultIgnoresExit(returncode, stdout, stderr) ==
    ExecutionResult(IF stdout # <<>> THEN Some(Utf8Decode(stdout)) ELSE None,
                    IF stderr # <<>> THEN Some(Utf8Decode(stderr)) ELSE None,
                    None, "Accepted", 3, Some(returncode))

\* The run process has exited; stdout and stderr are valid UTF-8 or empty.
RunResult(returncode, stdout, stderr) ==
    ExecutionResult(IF stdout # <<>> THEN Some(Utf8Decode(stdout)) ELSE None,
                    IF stderr # <<>> THEN Some(Utf8Decode(stderr)) ELSE None,
                    None,
                    IF returncode = 0 THEN "Accepted" ELSE "Runtime Error",
                    IF returncode = 0 THEN 3 ELSE 11,
                    Some(returncode))

\* Variant: a missing runtime is given the shell's exit code 127.
RuntimeNotFoundResultExit127(run_cmd, language) ==
    ExecutionResult(None,
                    Some(<<run_cmd[1], " not found. Please install it to run ",
                           language, " code locally.">>),
                    None, "Runtime Not Found", -1, Some(127))

\* Variant: a missing runtime is reported as a crash of the program.
RuntimeNotFoundAsRuntimeError(run_cmd, language) ==
    ExecutionResult(None,
                    Some(<<run_cmd[1], " not found. Please install it to run ",
                           language, " code locally.">>),
                    None, "Runtime Error", 11, None)

\* except FileNotFoundError around the run phase.
RuntimeNotFoundResult(run_cmd, language) ==
    LET runtime == run_cmd[1] IN
    ExecutionResult(None,
                    Some(<<runtime, " not found. Please install it to run ",
                           language, " code locally.">>),
                    None, "Runtime Not Found", -1, None)

\* Variant: the timeout handler carries the id of Compilation Error.
ExceptionResultWrongId(type) ==
    CASE type = "TimeoutError" ->
            ExecutionResult(None,
                            Some(<<"Execution timed out (5 second limit)">>),
                            None, "Time Limit Exceeded", 6, None)
      [] type = "FileNotFoundError" ->
            ExecutionResult(None,
                            Some(<<"Could not find runtime: ", type>>),
                            None, "Runtime Not Found", -1, None)
      [] OTHER ->
            ExecutionResult(None,
                            Some(<<"Execution error: ", type, "\n", "traceback">>),
                            None, "Error", -1, None)

\* Variant: there is no handler for TimeoutError, which falls to the
\* generic one.
ExceptionResultNoTimeoutHandler(type) ==
    CASE type = "FileNotFoundError" ->
            ExecutionResult(None,
                            Some(<<"Could not find runtime: ", type>>),
                            None, "Runtime Not Found", -1, None)
      [] OTHER ->
            ExecutionResult(None,
                            Some(<<"Execution error: ", type, "\n", "traceback">>),
                            None, "Error", -1, None)

\* The handlers of the outer try, by the type of the exception that reaches
\* them.
ExceptionResult(type) ==
    CASE type = "TimeoutError" ->
            ExecutionResult(None,
                            Some(<<"Execution timed out (5 second limit)">>),
                            None, "Time Limit Exceeded", 5, None)
      [] type = "FileNotFoundError" ->
            ExecutionResult(None,
                            Some(<<"Could not find runtime: ", type>>),
                            None, "Runtime Not Found", -1, None)
      [] OTHER ->
            ExecutionResult(None,
                            Some(<<"Execution error: ", type, "\n", "traceback">>),
                            None, "Error", -1, None)

\* Variant: stdin.encode() if stdin is not None else None
EncodedStdinIfNotNone(stdin) ==
    IF stdin # None THEN Some(Utf8Encode(Get(stdin))) ELSE None

\* stdin.encode() if stdin else None
EncodedStdin(stdin) ==
    IF stdin # None /\ Get(stdin) # <<>> THEN Some(Utf8Encode(Get(stdin)))
    ELSE None

\* asyncio.wait_for(process.communicate(...), timeout): the process is done
\* before the timer fires, or the timer fires first; at equality either.
ExitsInTime(halts, secs, timeout) == halts /\ secs <= timeout
TimerFires(halts, secs, timeout) == ~halts \/ secs >= timeout

\* Variant: the directory is removed at the end of the try body instead of
\* in a finally block, so a path that leaves through a handler skips it.
FinallyOnlyOnSuccess(c, d, res, dirs1, files1) ==
    /\ pc' = [pc EXCEPT ![c] = "returned"]
    /\ result' = [result EXCEPT ![c] = Some(res)]
    /\ IF res.status \in {"Accepted", "Runtime Error"}
       THEN \/ /\ cleanup' = [cleanup EXCEPT ![c] = "removed"]
               /\ dirs' = dirs1 \ {d}
               /\ files' = [p \in Paths |->
                              IF p \in {join(d, f) : f \in FileNames}
                              THEN None ELSE files1[p]]
            \/ /\ cleanup' = [cleanup EXCEPT ![c] = "failed"]
               /\ dirs' = dirs1
               /\ files' = files1
       ELSE /\ UNCHANGED cleanup
            /\ dirs' = dirs1
            /\ files' = files1

\* Variant: an exception of shutil.rmtree is not swallowed.
FinallyRaisesOnFailure(c, d, res, dirs1, files1) ==
    \/ /\ pc' = [pc EXCEPT ![c] = "returned"]
       /\ result' = [result EXCEPT ![c] = Some(res)]
       /\ cleanup' = [cleanup EXCEPT ![c] = "removed"]
       /\ dirs' = dirs1 \ {d}
       /\ files' = [p \in Paths |->
                      IF p \in {join(d, f) : f \in FileNames}
                      THEN None ELSE files1[p]]
    \/ /\ pc' = [pc EXCEPT ![c] = "raised"]
       /\ UNCHANGED result
       /\ cleanup' = [cleanup EXCEPT ![c] = "failed"]
       /\ dirs' = dirs1
       /\ files' = files1

\* Variant: the cleanup removes every workspace, not only the call's own.
FinallyRemovesAll(c, d, res, dirs1, files1) ==
    /\ pc' = [pc EXCEPT ![c] = "returned"]
    /\ result' = [result EXCEPT ![c] = Some(res)]
    /\ cleanup' = [cleanup EXCEPT ![c] = "removed"]
    /\ dirs' = {}
    /\ files' = [p \in Paths |-> None]

(***************************************************************************)
(* The finally block: shutil.rmtree(temp_dir) with every exception         *)
(* swallowed, then the return of res.  dirs1 and files1 are the filesystem *)
(* as the try block left it.                                               *)
(***************************************************************************)
Finally(c, d, res, dirs1, files1) ==
    /\ pc' = [pc EXCEPT ![c] = "returned"]
    /\ result' = [result EXCEPT ![c] = Some(res)]
    /\ \/ /\ cleanup' = [cleanup EXCEPT ![c] = "removed"]
          /\ dirs' = dirs1 \ {d}
          /\ files' = [p \in Paths |->
                         IF p \in {join(d, f) : f \in FileNames}
                         THEN None ELSE files1[p]]
       \/ /\ cleanup' = [cleanup EXCEPT ![c] = "failed"]
          /\ dirs' = dirs1
          /\ files' = files1

Raise(c, at, type) == exc' = [exc EXCEPT ![c] = [at |-> at, type |-> type]]

(***************************************************************************)
(* execute_code up to its first await: the language checks, mkdtemp and    *)
(* the write of the source file.                                           *)
(***************************************************************************)
Call(c, source_code, language, stdin, time_limit) ==
    /\ pc[c] = "idle"
    /\ request' = [request EXCEPT ![c] =
                     Some([source_code |-> source_code, language |-> language,
                           stdin |-> stdin, time_limit |-> time_limit])]
    /\ UNCHANGED <<compile_process, process>>
    /\ UNCHANGED cs_vars
    /\ UNCHANGED api_vars
    /\ IF language \notin DOMAIN LANGUAGE_MAP
       THEN /\ pc' = [pc EXCEPT ![c] = "returned"]
            /\ result' = [result EXCEPT ![c] =
                            Some(UnsupportedLanguageResult(language))]
            /\ UNCHANGED <<temp_dir, exc, cleanup, dirs, files>>
       ELSE IF language \notin DOMAIN lang_config
       THEN /\ pc' = [pc EXCEPT ![c] = "returned"]
            /\ result' = [result EXCEPT ![c] =
                            Some(UnsupportedResult(language))]
            /\ UNCHANGED <<temp_dir, exc, cleanup, dirs, files>>
       ELSE \/ \* tempfile.mkdtemp() raises, outside the try
               /\ pc' = [pc EXCEPT ![c] = "raised"]
               /\ Raise(c, "mkdtemp", "OSError")
               /\ UNCHANGED <<temp_dir, cleanup, result, dirs, files>>
            \/ \E d \in DirNames \ dirs :
               /\ temp_dir' = [temp_dir EXCEPT ![c] = Some(d)]
               /\ \/ \* the source file is written
                     /\ dirs' = dirs \cup {d}
                     /\ files' = [files EXCEPT ![SourceFile(language, d)] =
                                     Some(source_code)]
                     /\ pc' = [pc EXCEPT ![c] =
                                 IF lang_config[language].compile # <<>>
                                 THEN "compile_spawn" ELSE "run_spawn"]
                     /\ UNCHANGED <<exc, cleanup, result>>
                  \/ \* open() or write() raises
                     \E type \in {"FileNotFoundError", "OSError"} :
                        /\ Raise(c, "write", type)
                        /\ Finally(c, d, ExceptionResult(type),
                                   dirs \cup {d}, files)

(***************************************************************************)
(* await asyncio.create_subprocess_exec(compile_cmd)                    *)
(***************************************************************************)
CompileSpawn(c) ==
    /\ pc[c] = "compile_spawn"
    /\ LET d == Get(temp_dir[c])
           language == Req(c).language
           cmd == CompileCmd(language, d)
       IN  \/ /\ compile_process' = [compile_process EXCEPT ![c] =
                    [state |-> "running", cmd |-> cmd, cwd |-> d,
                     image |-> files[CompilerInput(cmd)],
                     input |-> None, returncode |-> None]]
              /\ pc' = [pc EXCEPT ![c] = "compile_wait"]
              /\ UNCHANGED <<exc, cleanup, result, dirs, files>>
           \/ \E type \in {"FileNotFoundError", "PermissionError"} :
              /\ Raise(c, "compile_spawn", type)
              /\ Finally(c, d,
                         IF type = "FileNotFoundError"
                         THEN CompilerNotFoundResult(language)
                         ELSE ExceptionResult(type),
                         dirs, files)
              /\ UNCHANGED compile_process
    /\ UNCHANGED <<request, temp_dir, process>>
    /\ UNCHANGED cs_vars
    /\ UNCHANGED api_vars

\* Variant: the compiler is not awaited; the run phase is entered while it
\* is still running.
CompileWaitNotAwaited(c) ==
    /\ pc[c] = "compile_wait"
    /\ pc' = [pc EXCEPT ![c] = "run_spawn"]
    /\ files' = [files EXCEPT
                   ![CompilerOutput(compile_process[c].cmd,
                                    compile_process[c].cwd)] =
                      compile_process[c].image]
    /\ UNCHANGED <<request, temp_dir, compile_process, process, exc, cleanup,
                   result, dirs>>
    /\ UNCHANGED cs_vars
    /\ UNCHANGED api_vars

(***************************************************************************)
(* await asyncio.wait_for(compile_process.communicate(), timeout=30.0)     *)
(* and the check of the compiler's return code.                            *)
(***************************************************************************)
CompileWait(c) ==
    /\ pc[c] = "compile_wait"
    /\ LET d == Get(temp_dir[c])
           p == compile_process[c]
           b == IF p.image = None THEN MissingFile ELSE Get(p.image)
           written == IF b.compile_exit = 0
                      THEN [files EXCEPT ![CompilerOutput(p.cmd, p.cwd)] = p.image]
                      ELSE files
       IN  \/ /\ ExitsInTime(b.compile_halts, b.compile_secs, CompileTimeout)
              /\ compile_process' = [compile_process EXCEPT ![c] =
                    [p EXCEPT !.state = "exited",
                              !.returncode = Some(b.compile_exit)]]
              /\ IF b.compile_exit # 0
                 THEN IF b.compile_err # <<>> /\ ~Utf8Valid(b.compile_err)
                      THEN /\ Raise(c, "compile_decode", "UnicodeDecodeError")
                           /\ Finally(c, d,
                                      ExceptionResult("UnicodeDecodeError"),
                                      dirs, written)
                      ELSE /\ Finally(c, d,
                                      CompilationErrorResult(b.compile_exit,
                                                             b.compile_err),
                                      dirs, written)
                           /\ UNCHANGED exc
                 ELSE /\ pc' = [pc EXCEPT ![c] = "run_spawn"]
                      /\ files' = written
                      /\ UNCHANGED <<exc, cleanup, result, dirs>>
           \/ \* the timer fires: communicate() is cancelled, the compiler
              \* is left running
              /\ TimerFires(b.compile_halts, b.compile_secs, CompileTimeout)
              /\ Raise(c, "compile_wait", "TimeoutError")
              /\ Finally(c, d, ExceptionResult("TimeoutError"), dirs, files)
              /\ UNCHANGED compile_process
    /\ UNCHANGED <<request, temp_dir, process>>
    /\ UNCHANGED cs_vars
    /\ UNCHANGED api_vars

(***************************************************************************)
(* await asyncio.create_subprocess_exec(run_cmd)                        *)
(***************************************************************************)
RunSpawn(c) ==
    /\ pc[c] = "run_spawn"
    /\ LET d == Get(temp_dir[c])
           language == Req(c).language
           cmd == RunCmd(language, d)
       IN  \/ \* a native executable starts only if its file exists
              /\ Len(cmd) = 1 => files[RunImage(cmd)] # None
              /\ process' = [process EXCEPT ![c] =
                    [state |-> "running", cmd |-> cmd, cwd |-> d,
                     image |-> files[RunImage(cmd)],
                     input |-> None, returncode |-> None]]
              /\ pc' = [pc EXCEPT ![c] = "run_wait"]
              /\ UNCHANGED <<exc, cleanup, result, dirs, files>>
           \/ \E type \in {"FileNotFoundError", "PermissionError"} :
              /\ Raise(c, "run_spawn", type)
              /\ Finally(c, d,
                         IF type = "FileNotFoundError"
                         THEN RuntimeNotFoundResult(cmd, language)
                         ELSE ExceptionResult(type),
                         dirs, files)
              /\ UNCHANGED process
    /\ UNCHANGED <<request, temp_dir, compile_process>>
    /\ UNCHANGED cs_vars
    /\ UNCHANGED api_vars

(***************************************************************************)
(* await asyncio.wait_for(process.communicate(stdin...), timeout=5.0)      *)
(* and the construction of the result.                                     *)
(***************************************************************************)
RunWait(c) ==
    /\ pc[c] = "run_wait"
    /\ LET d == Get(temp_dir[c])
           p == process[c]
           b == IF p.image = None THEN MissingFile ELSE Get(p.image)
           fed == [p EXCEPT !.input = EncodedStdin(Req(c).stdin)]
       IN  \/ /\ ExitsInTime(b.run_halts, b.run_secs, RunTimeout)
              /\ process' = [process EXCEPT ![c] =
                    [fed EXCEPT !.state = "exited",
                                !.returncode = Some(b.run_exit)]]
              /\ IF \/ b.out # <<>> /\ ~Utf8Valid(b.out)
                    \/ b.err # <<>> /\ ~Utf8Valid(b.err)
                 THEN /\ Raise(c, "run_decode", "UnicodeDecodeError")
                      /\ Finally(c, d, ExceptionResult("UnicodeDecodeError"),
                                 dirs, files)
                 ELSE /\ Finally(c, d, RunResult(b.run_exit, b.out, b.err),
                                 dirs, files)
                      /\ UNCHANGED exc
           \/ \* the timer fires: communicate() is cancelled, the process is
              \* left running
              /\ TimerFires(b.run_halts, b.run_secs, RunTimeout)
              /\ process' = [process EXCEPT ![c] = fed]
              /\ Raise(c, "run_wait", "TimeoutError")
              /\ Finally(c, d, ExceptionResult("TimeoutError"), dirs, files)
    /\ UNCHANGED <<request, temp_dir, compile_process>>
    /\ UNCHANGED cs_vars
    /\ UNCHANGED api_vars

(***************************************************************************)
(* Environment: a process that a timed out call left running exits by      *)
(* itself, if its program halts.                                           *)
(***************************************************************************)
ProcessExit(c) ==
    /\ pc[c] = "returned"
    /\ \/ /\ compile_process[c].state = "running"
          /\ LET p == compile_process[c]
                 b == IF p.image = None THEN MissingFile ELSE Get(p.image)
             IN  /\ b.compile_halts
                 /\ compile_process' = [compile_process EXCEPT ![c] =
                       [p EXCEPT !.state = "exited",
                                 !.returncode = Some(b.compile_exit)]]
                 /\ files' = IF b.compile_exit = 0 /\ p.cwd \in dirs
                             THEN [files EXCEPT
                                     ![CompilerOutput(p.cmd, p.cwd)] = p.image]
                             ELSE files
          /\ UNCHANGED process
       \/ /\ process[c].state = "running"
          /\ LET p == process[c]
                 b == IF p.image = None THEN MissingFile ELSE Get(p.image)
             IN  /\ b.run_halts
                 /\ process' = [process EXCEPT ![c] =
                       [p EXCEPT !.state = "exited",
                                 !.returncode = Some(b.run_exit)]]
          /\ UNCHANGED <<compile_process, files>>
    /\ UNCHANGED <<pc, request, temp_dir, exc, cleanup, result, dirs>>
    /\ UNCHANGED cs_vars
    /\ UNCHANGED api_vars

(***************************************************************************)
(* Specification: the service executes one request.                        *)
(***************************************************************************)
Execute(c) ==
    /\ pc[c] = "idle"
    /\ \A o \in Calls \ {c} : pc[o] = "idle"
    /\ \E source_code \in Sources, language \in Languages,
          stdin \in Stdins, time_limit \in TimeLimits :
          Call(c, source_code, language, stdin, time_limit)

Next ==
    \E c \in Calls :
       \/ Execute(c)
       \/ CompileSpawn(c)
       \/ CompileWait(c)
       \/ RunSpawn(c)
       \/ RunWait(c)
       \/ ProcessExit(c)

Spec == Init /\ [][Next]_vars

(***************************************************************************)
(* check_solution: the submission is run once per test case, in order, and *)
(* the outcomes are collected in a report.                                 *)
(***************************************************************************)
\* Variant: "a or b" always yields b.
PyOrSecond(a, b) == b

\* Python's "a or b" on optional strings: a if it is a non-empty string.
PyOr(a, b) == IF a # None /\ Get(a) # <<>> THEN a ELSE b

\* str.strip() with no argument, on the characters the model has.
IsSpace(ch) == ch \in {" ", "\n"}

RECURSIVE LStrip(_)
LStrip(s) ==
    IF s # <<>> /\ IsSpace(Head(s)) THEN LStrip(Tail(s)) ELSE s

RECURSIVE RStrip(_)
RStrip(s) ==
    IF s # <<>> /\ IsSpace(s[Len(s)])
    THEN RStrip(SubSeq(s, 1, Len(s) - 1)) ELSE s

\* Variant: only leading whitespace is removed.
StripLeading(s) == LStrip(s)

Strip(s) == RStrip(LStrip(s))

\* The test cases a caller may give: dicts with the keys input and
\* expected_output.
TestCaseSet ==
    {[input |-> <<>>,         expected_output |-> <<"h", " ", "i">>],
     [input |-> <<"h", "i">>, expected_output |-> <<" ", "h", "i">>],
     [input |-> <<>>,         expected_output |-> <<>>]}

TestCaseLists == UNION {[1..n -> TestCaseSet] : n \in 0..MaxCases}

\* The submissions given to check_solution: a C++ program that prints
\* "hi\n", a Python program that prints "hi\n" and "hi\n" on stderr and
\* exits with 1, a Python program that runs one second longer than the run
\* deadline, a C++ source that does not compile, and a program in a
\* language the service does not know.
Hello ==
    [compile_halts |-> TRUE, compile_secs |-> 1, compile_exit |-> 0,
     compile_err |-> <<>>,
     run_halts |-> TRUE, run_secs |-> 0, run_exit |-> 0,
     out |-> <<104, 105, 10>>, err |-> <<>>]

Submissions ==
    {[source_code |-> Hello, language |-> "cpp"],
     [source_code |-> [Hello EXCEPT !.run_exit = 1, !.err = <<104, 105, 10>>],
      language |-> "python"],
     [source_code |-> [Hello EXCEPT !.run_secs = RunTimeout + 1],
      language |-> "python"],
     [source_code |-> [Hello EXCEPT !.compile_exit = 1, !.out = <<>>],
      language |-> "cpp"],
     [source_code |-> Hello, language |-> "ruby"]}

\* The call of execute_code that check_solution awaits.
HarnessCall == CHOOSE c \in Calls : TRUE

CsArgs == Get(cs_args)

\* Variant: the entries are numbered from 0, as enumerate counts.
EntryZeroBased(i, test_case, r) ==
    LET actual_output == Strip(Get(PyOr(r.stdout, Some(<<>>))))
        expected_output == Strip(test_case.expected_output)
    IN  [test_case |-> i,
         passed |-> actual_output = expected_output,
         input |-> test_case.input,
         expected |-> expected_output,
         actual |-> actual_output,
         status |-> r.status,
         time |-> r.time,
         error |-> PyOr(r.stderr, r.compile_output)]

\* The dict appended to results for test case number i (from 0) whose
\* execution returned r.
Entry(i, test_case, r) ==
    LET actual_output == Strip(Get(PyOr(r.stdout, Some(<<>>))))
        expected_output == Strip(test_case.expected_output)
    IN  [test_case |-> i + 1,
         passed |-> actual_output = expected_output,
         input |-> test_case.input,
         expected |-> expected_output,
         actual |-> actual_output,
         status |-> r.status,
         time |-> r.time,
         error |-> PyOr(r.stderr, r.compile_output)]

\* Variant: all_passed is set as soon as one case passed.
ReportAllPassedIfAny(passed1, test_cases, results1) ==
    [passed |-> passed1,
     total |-> Len(test_cases),
     all_passed |-> passed1 > 0,
     results |-> results1]

\* The dict check_solution returns.
Report(passed1, test_cases, results1) ==
    [passed |-> passed1,
     total |-> Len(test_cases),
     all_passed |-> passed1 = Len(test_cases),
     results |-> results1]

(***************************************************************************)
(* check_solution up to the loop: results = [] and passed = 0.  An empty   *)
(* list of test cases goes straight to the return.                         *)
(***************************************************************************)
CheckSolution(source_code, language, test_cases, time_limit) ==
    /\ cs_pc = "idle"
    /\ \A c \in Calls : pc[c] = "idle"
    /\ cs_args' = Some([source_code |-> source_code, language |-> language,
                        test_cases |-> test_cases, time_limit |-> time_limit])
    /\ results' = <<>>
    /\ passed' = 0
    /\ case_index' = 0
    /\ IF test_cases = <<>>
       THEN /\ cs_pc' = "done"
            /\ report' = Some(Report(0, test_cases, <<>>))
       ELSE /\ cs_pc' = "running"
            /\ UNCHANGED report
    /\ UNCHANGED <<pc, request, temp_dir, compile_process, process, exc,
                   cleanup, result, dirs, files, executed>>
    /\ UNCHANGED api_vars

\* The loop body up to its await: execute_code is called with the input of
\* test case number case_index as stdin.
CallCase ==
    /\ cs_pc = "running"
    /\ pc[HarnessCall] = "idle"
    /\ LET test_case == CsArgs.test_cases[case_index + 1] IN
       Call(HarnessCall, CsArgs.source_code, CsArgs.language,
            Some(test_case.input), CsArgs.time_limit)

\* execute_code has returned: the rest of the loop body, and after the last
\* test case the return of the report.  The frame of the call is dropped.
CaseDone ==
    /\ cs_pc = "running"
    /\ pc[HarnessCall] = "returned"
    /\ LET c == HarnessCall
           test_cases == CsArgs.test_cases
           entry == Entry(case_index, test_cases[case_index + 1],
                         Get(result[c]))
           results1 == Append(results, entry)
           passed1 == IF entry.passed THEN passed + 1 ELSE passed
       IN  /\ results' = results1
           /\ passed' = passed1
           /\ executed' = Append(executed,
                                 [request |-> request[c], result |-> result[c]])
           /\ IF case_index + 1 = Len(test_cases)
              THEN /\ cs_pc' = "done"
                   /\ report' = Some(Report(passed1, test_cases, results1))
                   /\ UNCHANGED case_index
              ELSE /\ case_index' = case_index + 1
                   /\ UNCHANGED <<cs_pc, report>>
           /\ pc' = [pc EXCEPT ![c] = "idle"]
           /\ request' = [request EXCEPT ![c] = None]
           /\ temp_dir' = [temp_dir EXCEPT ![c] = None]
           /\ compile_process' = [compile_process EXCEPT ![c] = NoProcess]
           /\ process' = [process EXCEPT ![c] = NoProcess]
           /\ exc' = [exc EXCEPT ![c] = NoException]
           /\ cleanup' = [cleanup EXCEPT ![c] = "none"]
           /\ result' = [result EXCEPT ![c] = None]
    /\ UNCHANGED <<cs_args, dirs, files>>
    /\ UNCHANGED api_vars

\* execute_code has raised: check_solution has no handler, the exception
\* leaves it and nothing is returned.
CaseRaised ==
    /\ cs_pc = "running"
    /\ pc[HarnessCall] = "raised"
    /\ cs_pc' = "raised"
    /\ executed' = Append(executed,
                          [request |-> request[HarnessCall], result |-> None])
    /\ UNCHANGED <<pc, request, temp_dir, compile_process, process, exc,
                   cleanup, result, dirs, files,
                   cs_args, case_index, results, passed, report>>
    /\ UNCHANGED api_vars

(***************************************************************************)
(* Specification: the service checks one submission.                       *)
(***************************************************************************)
NextCheck ==
    \/ \E s \in Submissions, test_cases \in TestCaseLists :
          CheckSolution(s.source_code, s.language, test_cases, RunTimeout)
    \/ CallCase
    \/ CompileSpawn(HarnessCall)
    \/ CompileWait(HarnessCall)
    \/ RunSpawn(HarnessCall)
    \/ RunWait(HarnessCall)
    \/ ProcessExit(HarnessCall)
    \/ CaseDone
    \/ CaseRaised

SpecCheck == Init /\ [][NextCheck]_vars

(***************************************************************************)
(* submit_code: the submitted code is executed once, without stdin, and    *)
(* the verdict decides the XP of the current user.                         *)
(***************************************************************************)
\* The beginnings by which a correct_answer is taken for code.
CodePrefixes ==
    {<<"d", "e", "f", " ">>,
     <<"f", "u", "n", "c", "t", "i", "o", "n", " ">>,
     <<"i", "n", "t", " ">>,
     <<"c", "l", "a", "s", "s", " ">>,
     <<"#", "i", "n", "c", "l", "u", "d", "e">>}

\* str.startswith
StartsWith(s, prefix) ==
    Len(s) >= Len(prefix) /\ SubSeq(s, 1, Len(prefix)) = prefix

\* The questions a submission may be for: the correct answer is empty, is
\* the output "hi" with a trailing blank, is another output, or is code.
Questions ==
    [correct_answer : {Some(<<>>), Some(<<"h", "i", " ">>),
                       Some(<<"h", " ", "i">>),
                       Some(<<"i", "n", "t", " ", "i">>)},
     xp_reward : {0, 10}]

\* Variant: the output decides alone whenever there is one to compare.
IsCorrectByOutput(r, question) ==
    IF question.correct_answer # None /\ Get(question.correct_answer) # <<>>
    THEN LET expected == Strip(Get(question.correct_answer))
             actual == Strip(Get(PyOr(r.stdout, Some(<<>>))))
         IN  IF \E prefix \in CodePrefixes : StartsWith(expected, prefix)
             THEN r.status_id = 3
             ELSE actual = expected
    ELSE r.status_id = 3

\* is_correct of submit_code for the execution result r.
IsCorrect(r, question) ==
    IF /\ r.status_id = 3
       /\ question.correct_answer # None
       /\ Get(question.correct_answer) # <<>>
    THEN LET expected == Strip(Get(question.correct_answer))
             actual == Strip(Get(PyOr(r.stdout, Some(<<>>))))
         IN  IF \E prefix \in CodePrefixes : StartsWith(expected, prefix)
             THEN TRUE
             ELSE actual = expected
    ELSE r.status_id = 3

ScArgs == Get(sc_args)

\* submit_code up to the call of execute_code: the question is looked up;
\* an unknown question ends the request with HTTP 404.
SubmitCode(user, question, source_code, language) ==
    /\ sc_pc = "idle"
    /\ \A c \in Calls : pc[c] = "idle"
    /\ sc_args' = Some([current_user |->
                           [id |-> user, total_xp |-> users[user].total_xp],
                        question |-> question,
                        source_code |-> source_code, language |-> language])
    /\ sc_pc' = IF question = None THEN "raised" ELSE "running"
    /\ UNCHANGED <<pc, request, temp_dir, compile_process, process, exc,
                   cleanup, result, dirs, files>>
    /\ UNCHANGED cs_vars
    /\ UNCHANGED <<submission, users, duel, last_op>>

\* execute_code(source_code, language): stdin and time_limit take their
\* defaults.
SubmitCall ==
    /\ sc_pc = "running"
    /\ pc[HarnessCall] = "idle"
    /\ Call(HarnessCall, ScArgs.source_code, ScArgs.language, None, RunTimeout)

\* execute_code has returned: is_correct, the XP and the response.
SubmitDone ==
    /\ sc_pc = "running"
    /\ pc[HarnessCall] = "returned"
    /\ LET r == Get(result[HarnessCall])
           question == Get(ScArgs.question)
           current_user == ScArgs.current_user
           is_correct == IsCorrect(r, question)
           xp_earned == IF is_correct THEN question.xp_reward ELSE 0
       IN  /\ users' = IF xp_earned > 0
                       THEN [users EXCEPT ![current_user.id].total_xp =
                                current_user.total_xp + xp_earned]
                       ELSE users
           /\ submission' =
                 Some([is_correct |-> is_correct,
                       stdout |-> r.stdout,
                       stderr |-> r.stderr,
                       compile_output |-> r.compile_output,
                       status |-> r.status,
                       xp_earned |-> xp_earned,
                       correct_answer |-> IF ~is_correct
                                          THEN question.correct_answer
                                          ELSE None])
    /\ sc_pc' = "done"
    /\ UNCHANGED <<pc, request, temp_dir, compile_process, process, exc,
                   cleanup, result, dirs, files>>
    /\ UNCHANGED cs_vars
    /\ UNCHANGED <<sc_args, duel, last_op>>

\* execute_code has raised: submit_code has no handler.
SubmitRaised ==
    /\ sc_pc = "running"
    /\ pc[HarnessCall] = "raised"
    /\ sc_pc' = "raised"
    /\ UNCHANGED <<pc, request, temp_dir, compile_process, process, exc,
                   cleanup, result, dirs, files>>
    /\ UNCHANGED cs_vars
    /\ UNCHANGED <<sc_args, submission, users, duel, last_op>>

(***************************************************************************)
(* Specification: one user submits code for one question.                  *)
(***************************************************************************)
NextSubmit ==
    \/ \E user \in Users, question \in {None} \cup {Some(q) : q \in Questions},
          s \in Submissions :
          SubmitCode(user, question, s.source_code, s.language)
    \/ SubmitCall
    \/ CompileSpawn(HarnessCall)
    \/ CompileWait(HarnessCall)
    \/ RunSpawn(HarnessCall)
    \/ RunWait(HarnessCall)
    \/ ProcessExit(HarnessCall)
    \/ SubmitDone
    \/ SubmitRaised

SpecSubmit == Init /\ [][NextSubmit]_vars

(***************************************************************************)
(* Duels (contest_service).  Every operation reads and writes the tables   *)
(* without suspending in between, so each is one step.                     *)
(***************************************************************************)
\* UUID(int=0), which stands for "no opponent yet" in a Duel object.
NoUser == "00000000-0000-0000-0000-000000000000"

\* The execution steps leave all of this alone.
exec_vars == <<pc, request, temp_dir, compile_process, process, exc, cleanup,
               result, dirs, files>>

Op(op, ok, is_correct) == [op |-> op, ok |-> ok, is_correct |-> is_correct]

\* _db_to_duel: the fields of the row the operations look at.
DbToDuel(row) ==
    [row EXCEPT !.opponent_id = IF row.opponent_id = None THEN NoUser
                                ELSE Get(row.opponent_id)]

\* _award_xp(user_id, 50) followed by _update_duel_stats.
AwardWinner(table, challenger_id, opponent_id, winner_id) ==
    LET loser_id == IF winner_id = challenger_id THEN opponent_id
                    ELSE challenger_id
        awarded == IF winner_id \in Users
                   THEN [table EXCEPT ![winner_id].total_xp = @ + 50]
                   ELSE table
        won == IF winner_id \in Users
               THEN [awarded EXCEPT ![winner_id].duels_won = @ + 1]
               ELSE awarded
    IN  IF loser_id \in Users
        THEN [won EXCEPT ![loser_id].duels_lost = @ + 1]
        ELSE won

CreateDuel(challenger_id, opponent_id) ==
    /\ duel = None
    /\ duel' = Some([challenger_id |-> challenger_id,
                     opponent_id |-> opponent_id,
                     challenger_score |-> 0,
                     opponent_score |-> 0,
                     status |-> "waiting",
                     winner_id |-> None])
    /\ last_op' = Op("create_duel", TRUE, FALSE)
    /\ UNCHANGED <<sc_pc, sc_args, submission, users>>
    /\ UNCHANGED exec_vars
    /\ UNCHANGED cs_vars

\* Variant: the duel is accepted whatever its status is.
AcceptDuelAnyStatus(opponent_id) ==
    /\ IF duel = None
       THEN /\ last_op' = Op("accept_duel", FALSE, FALSE)
            /\ UNCHANGED duel
       ELSE /\ duel' = Some([Get(duel) EXCEPT
                               !.opponent_id = Some(opponent_id),
                               !.status = "in_progress"])
            /\ last_op' = Op("accept_duel", TRUE, FALSE)
    /\ UNCHANGED <<sc_pc, sc_args, submission, users>>
    /\ UNCHANGED exec_vars
    /\ UNCHANGED cs_vars

AcceptDuel(opponent_id) ==
    /\ IF duel = None \/ Get(duel).status # "waiting"
       THEN \* ValueError: not found, or not available
            /\ last_op' = Op("accept_duel", FALSE, FALSE)
            /\ UNCHANGED duel
       ELSE /\ duel' = Some([Get(duel) EXCEPT
                               !.opponent_id = Some(opponent_id),
                               !.status = "in_progress"])
            /\ last_op' = Op("accept_duel", TRUE, FALSE)
    /\ UNCHANGED <<sc_pc, sc_args, submission, users>>
    /\ UNCHANGED exec_vars
    /\ UNCHANGED cs_vars

SubmitDuelAnswer(user_id, is_correct) ==
    /\ IF duel = None \/ Get(duel).status # "in_progress"
       THEN \* ValueError: not found, or not active
            /\ last_op' = Op("submit_duel_answer", FALSE, is_correct)
            /\ UNCHANGED duel
       ELSE LET d == DbToDuel(Get(duel))
                is_challenger == user_id = d.challenger_id
                challenger_score ==
                    IF is_correct /\ is_challenger
                    THEN d.challenger_score + 1 ELSE d.challenger_score
                opponent_score ==
                    IF is_correct /\ ~is_challenger
                    THEN d.opponent_score + 1 ELSE d.opponent_score
            IN  /\ challenger_score <= MaxScore
                /\ opponent_score <= MaxScore
                /\ duel' = Some([Get(duel) EXCEPT
                                   !.challenger_score = challenger_score,
                                   !.opponent_score = opponent_score])
                /\ last_op' = Op("submit_duel_answer", TRUE, is_correct)
    /\ UNCHANGED <<sc_pc, sc_args, submission, users>>
    /\ UNCHANGED exec_vars
    /\ UNCHANGED cs_vars

FinishDuel ==
    /\ \A u \in Users : users[u].total_xp < 50 * MaxAwards
    /\ IF duel = None
       THEN \* ValueError: not found
            /\ last_op' = Op("finish_duel", FALSE, FALSE)
            /\ UNCHANGED <<duel, users>>
       ELSE LET d == DbToDuel(Get(duel))
                winner_id ==
                    IF d.challenger_score > d.opponent_score
                    THEN Some(d.challenger_id)
                    ELSE IF d.opponent_score > d.challenger_score
                    THEN Some(d.opponent_id)
                    ELSE None
            IN  /\ duel' = Some([Get(duel) EXCEPT !.status = "completed",
                                                  !.winner_id = winner_id])
                /\ users' = IF winner_id # None
                            THEN AwardWinner(users, d.challenger_id,
                                             d.opponent_id, Get(winner_id))
                            ELSE users
                /\ last_op' = Op("finish_duel", TRUE, FALSE)
    /\ UNCHANGED <<sc_pc, sc_args, submission>>
    /\ UNCHANGED exec_vars
    /\ UNCHANGED cs_vars

(***************************************************************************)
(* Specification: any sequence of operations on one duel.                  *)
(***************************************************************************)
NextDuel ==
    \/ \E challenger_id \in Users,
          opponent_id \in {None} \cup {Some(u) : u \in Users} :
          CreateDuel(challenger_id, opponent_id)
    \/ \E opponent_id \in Users : AcceptDuel(opponent_id)
    \/ \E user_id \in Users, is_correct \in BOOLEAN :
          SubmitDuelAnswer(user_id, is_correct)
    \/ FinishDuel

SpecDuel == Init /\ [][NextDuel]_vars

(***************************************************************************)
(* Specification: the service executes two requests that overlap.  The     *)
(* second call starts while the first is suspended at one of its awaits.   *)
(***************************************************************************)
\* The submissions of the two requests: those above, the program that
\* prints "hi\n" in Python, and a C++ program that prints U+00E9.
ConcurrentSubmissions ==
    Submissions \cup
    {[source_code |-> Hello, language |-> "python"],
     [source_code |-> [Hello EXCEPT !.out = <<195, 169>>], language |-> "cpp"]}

ExecuteConcurrently(c) ==
    /\ pc[c] = "idle"
    /\ \A o \in Calls \ {c} : pc[o] \notin {"returned", "raised"}
    /\ \E s \in ConcurrentSubmissions, stdin \in Stdins :
          Call(c, s.source_code, s.language, stdin, RunTimeout)

NextConcurrent ==
    \E c \in Calls :
       \/ ExecuteConcurrently(c)
       \/ CompileSpawn(c)
       \/ CompileWait(c)
       \/ RunSpawn(c)
       \/ RunWait(c)
       \/ ProcessExit(c)

SpecConcurrent == Init /\ [][NextConcurrent]_vars

(***************************************************************************)
(* Vocabulary of the properties.                                           *)
(***************************************************************************)
Returned(c) == pc[c] = "returned"
Res(c) == Get(result[c])

CompileBehaviour(c) ==
    IF compile_process[c].image = None THEN MissingFile
    ELSE Get(compile_process[c].image)

RunBehaviour(c) ==
    IF process[c].image = None THEN MissingFile ELSE Get(process[c].image)

\* The call saw its compiler exit (it did not time out waiting for it).
CompileFinished(c) ==
    /\ Returned(c)
    /\ compile_process[c].state = "exited"
    /\ exc[c].at # "compile_wait"

\* The call saw its run process exit within the deadline.
RunFinished(c) ==
    /\ Returned(c)
    /\ process[c].state = "exited"
    /\ exc[c].at # "run_wait"

\* An optional text field holds what a process wrote: absent for no
\* output, else a text whose UTF-8 encoding is the bytes written.
Carries(field, bytes) ==
    IF bytes = <<>> THEN field = None
    ELSE field # None /\ Utf8Encode(Get(field)) = bytes

Decodes(bytes) == bytes = <<>> \/ Utf8Valid(bytes)

InternalError(r) ==
    r.status = "Error" /\ r.status_id = -1 /\ r.stderr # None

\* The text s without its leading and trailing whitespace: what lies
\* between its first and its last character that is not whitespace.
Trimmed(s) ==
    LET ns == {k \in 1..Len(s) : ~IsSpace(s[k])} IN
    IF ns = {} THEN <<>>
    ELSE SubSeq(s, CHOOSE k \in ns : \A j \in ns : k <= j,
                   CHOOSE k \in ns : \A j \in ns : k >= j)

\* What a call returns when nothing but its own arguments, its own
\* directory and the faults raised inside it decide: the result of
\* executing its own source.
OwnOutcome(c) ==
    LET language == Req(c).language
        b == Req(c).source_code
        compiled == lang_config[language].compile # <<>>
    IN  IF language \notin DOMAIN LANGUAGE_MAP
        THEN UnsupportedLanguageResult(language)
        ELSE IF language \notin DOMAIN lang_config
        THEN UnsupportedResult(language)
        ELSE IF exc[c].at = "compile_spawn" /\ exc[c].type = "FileNotFoundError"
        THEN CompilerNotFoundResult(language)
        ELSE IF exc[c].at = "run_spawn" /\ exc[c].type = "FileNotFoundError"
        THEN RuntimeNotFoundResult(RunCmd(language, Get(temp_dir[c])), language)
        ELSE IF exc[c].at # "none"
        THEN ExceptionResult(exc[c].type)
        ELSE IF compiled /\ b.compile_exit # 0
        THEN CompilationErrorResult(b.compile_exit, b.compile_err)
        ELSE RunResult(b.run_exit, b.out, b.err)

\* The call is suspended at one of its awaits; the paths inside the
\* directory it created.
InFlight(c) ==
    pc[c] \in {"compile_spawn", "compile_wait", "run_spawn", "run_wait"}
OwnPaths(c) == {join(Get(temp_dir[c]), f) : f \in FileNames}

\* Both calls are or were in flight, so they overlapped.
BothCalled == \A c \in Calls : request[c] # None

\* What the k-th execute_code call of check_solution returned, and the
\* text of its stdout ("" when there is none).
Outcome(k) == Get(executed[k].result)
StdoutText(r) == IF r.stdout = None THEN <<>> ELSE Get(r.stdout)

\* The test cases check_solution was given.
GivenCases == CsArgs.test_cases

(***************************************************************************)
(* C1.  Once execute has returned, the workspace directory it created no   *)
(* longer exists, on every exit path.                                      *)
(***************************************************************************)
\* C1 as stated: after the return the directory mkdtemp made is gone.
C1_WorkspaceGone ==
    \A c \in Calls :
       Returned(c) /\ temp_dir[c] # None => Get(temp_dir[c]) \notin dirs

\* C1 amended: on every exit path of a call that made a directory, rmtree
\* has been attempted on it before the return, and the directory and its
\* files are gone unless that attempt failed.
C1_WorkspaceRemovedUnlessRmtreeFails ==
    \A c \in Calls :
       Returned(c) /\ temp_dir[c] # None =>
          /\ cleanup[c] \in {"removed", "failed"}
          /\ cleanup[c] = "removed" =>
                /\ Get(temp_dir[c]) \notin dirs
                /\ \A f \in FileNames : files[join(Get(temp_dir[c]), f)] = None

C1_Witness ==
    \E c \in Calls :
       /\ Returned(c)
       /\ Res(c).status = "Time Limit Exceeded"
       /\ cleanup[c] = "removed"
       /\ Get(temp_dir[c]) \notin dirs

(***************************************************************************)
(* C2.  A run that exceeds its deadline is reported Time Limit Exceeded    *)
(* (5) with an explanatory stderr, and no process the call spawned is      *)
(* still running once the call has returned.                               *)
(***************************************************************************)
C2_TimeoutKillsProcess ==
    \A c \in Calls :
       Returned(c) /\ exc[c] = [at |-> "run_wait", type |-> "TimeoutError"] =>
          /\ Res(c).status = "Time Limit Exceeded"
          /\ Res(c).status_id = 5
          /\ Res(c).stderr # None
          /\ process[c].state # "running"
          /\ compile_process[c].state # "running"

(***************************************************************************)
(* C3.  For a language outside python, c, cpp, java, javascript, execute   *)
(* returns the verdict Unsupported, creates no workspace and spawns no     *)
(* process.                                                                *)
(***************************************************************************)
C3_UnsupportedVerdict ==
    \A c \in Calls :
       /\ Returned(c)
       /\ Req(c).language \notin {"python", "c", "cpp", "java", "javascript"}
       => /\ Res(c).status = "Unsupported"
          /\ temp_dir[c] = None
          /\ compile_process[c].state = "none"
          /\ process[c].state = "none"

(***************************************************************************)
(* C4.  The run deadline is the request's time limit T: a run still going  *)
(* after T is reported Time Limit Exceeded, a run that ends before T is    *)
(* not.                                                                    *)
(***************************************************************************)
C4_DeadlineIsTimeLimit ==
    \A c \in Calls :
       Returned(c) /\ process[c].state # "none" =>
          LET b == RunBehaviour(c)
              T == Req(c).time_limit
          IN  /\ ~b.run_halts \/ b.run_secs > T
                    => Res(c).status = "Time Limit Exceeded"
              /\ b.run_halts /\ b.run_secs < T
                    => Res(c).status # "Time Limit Exceeded"

(***************************************************************************)
(* C5.  No fault crosses the boundary of execute: an unexpected fault      *)
(* while creating the workspace, writing the source, compiling, running    *)
(* or decoding becomes a returned result with the internal-error verdict   *)
(* and a diagnostic in stderr.                                             *)
(***************************************************************************)
C5_FaultsBecomeInternalError ==
    \A c \in Calls :
       /\ pc[c] # "raised"
       /\ /\ Returned(c)
          /\ \/ exc[c].at \in {"mkdtemp", "write", "compile_decode", "run_decode"}
             \/ /\ exc[c].at \in {"compile_spawn", "run_spawn"}
                /\ exc[c].type # "FileNotFoundError"
          => InternalError(Res(c))

(***************************************************************************)
(* C6.  When the compiler exits with a non-zero code, execute returns      *)
(* Compilation Error (6) with a non-empty compileOutput (the captured      *)
(* compiler stderr, or a generic message when that is empty), the          *)
(* compiler's exit code, no stdout, and never starts the run phase.        *)
(***************************************************************************)
CompilationErrorReported(c) ==
    LET b == CompileBehaviour(c)
        r == Res(c)
    IN  /\ r.status = "Compilation Error"
        /\ r.status_id = 6
        /\ r.compile_output # None
        /\ Get(r.compile_output) # <<>>
        /\ IF b.compile_err = <<>>
           THEN r.compile_output = Some(<<"Compilation failed">>)
           ELSE Utf8Encode(Get(r.compile_output)) = b.compile_err
        /\ r.exit_code = compile_process[c].returncode
        /\ r.stdout = None
        /\ process[c].state = "none"

\* C6 as stated.
C6_CompileFailureReported ==
    \A c \in Calls :
       CompileFinished(c) /\ Get(compile_process[c].returncode) # 0 =>
          CompilationErrorReported(c)

\* C6 amended: it holds when the captured compiler stderr is empty or valid
\* UTF-8; when it is not, decoding it faults and the result is the
\* internal-error verdict, still without a run phase.
C6_CompileFailureReportedWhenDecodable ==
    \A c \in Calls :
       CompileFinished(c) /\ Get(compile_process[c].returncode) # 0 =>
          IF Decodes(CompileBehaviour(c).compile_err)
          THEN CompilationErrorReported(c)
          ELSE InternalError(Res(c)) /\ process[c].state = "none"

C6_Witness ==
    \E c \in Calls :
       /\ CompileFinished(c)
       /\ compile_process[c].returncode = Some(1)
       /\ CompileBehaviour(c).compile_err = <<>>
       /\ Res(c).status = "Compilation Error"
       /\ Req(c).language = "cpp"

(***************************************************************************)
(* C7.  When the run process finishes within the deadline, the verdict is  *)
(* Accepted (3) iff its exit code is 0 and Runtime Error (11) otherwise,   *)
(* and the result carries its stdout, stderr and exit code.                *)
(***************************************************************************)
RunReported(c) ==
    LET b == RunBehaviour(c)
        r == Res(c)
        rc == Get(process[c].returncode)
    IN  /\ r.status = "Accepted" <=> rc = 0
        /\ r.status = "Runtime Error" <=> rc # 0
        /\ r.status_id = 3 <=> rc = 0
        /\ r.status_id = 11 <=> rc # 0
        /\ r.exit_code = Some(rc)
        /\ Carries(r.stdout, b.out)
        /\ Carries(r.stderr, b.err)

\* C7 as stated.
C7_VerdictFromExitCode ==
    \A c \in Calls : RunFinished(c) => RunReported(c)

\* C7 amended: it holds when what the process wrote to stdout and stderr is
\* empty or valid UTF-8; otherwise decoding faults and the result is the
\* internal-error verdict without stdout or exit code.
C7_VerdictFromExitCodeWhenDecodable ==
    \A c \in Calls :
       RunFinished(c) =>
          IF Decodes(RunBehaviour(c).out) /\ Decodes(RunBehaviour(c).err)
          THEN RunReported(c)
          ELSE /\ InternalError(Res(c))
               /\ Res(c).stdout = None
               /\ Res(c).exit_code = None

C7_Witness ==
    \E c \in Calls :
       /\ RunFinished(c)
       /\ process[c].returncode = Some(1)
       /\ Res(c).status = "Runtime Error"
       /\ Res(c).stdout = Some(<<"h", "i", "\n">>)
       /\ Res(c).stderr = Some(<<"U+00E9">>)

(***************************************************************************)
(* C8.  When the compiler of a compiled language cannot be launched,       *)
(* execute returns Compiler Not Found with the compiler's name in stderr   *)
(* and no exit code, and never starts the run phase.                       *)
(***************************************************************************)
CompilerNotFoundReported(c) ==
    LET r == Res(c)
        compiler == [c |-> "gcc", cpp |-> "g++", java |-> "javac"]
    IN  /\ r.status = "Compiler Not Found"
        /\ r.stderr # None
        /\ \E i \in DOMAIN Get(r.stderr) :
              Get(r.stderr)[i] = compiler[Req(c).language]
        /\ r.exit_code = None
        /\ compile_process[c].state = "none"
        /\ process[c].state = "none"

\* C8 as stated.
C8_CompilerNotLaunched ==
    \A c \in Calls :
       Returned(c) /\ exc[c].at = "compile_spawn" =>
          CompilerNotFoundReported(c)

\* C8 amended: it holds when the launch fails because the compiler binary
\* is not found (FileNotFoundError); any other launch failure, such as a
\* binary that may not be executed, gives the internal-error verdict, also
\* without exit code and without a run phase.
C8_CompilerNotFound ==
    \A c \in Calls :
       Returned(c) /\ exc[c].at = "compile_spawn" =>
          IF exc[c].type = "FileNotFoundError"
          THEN CompilerNotFoundReported(c)
          ELSE /\ InternalError(Res(c))
               /\ Res(c).exit_code = None
               /\ process[c].state = "none"

C8_Witness ==
    \E c \in Calls :
       /\ Returned(c)
       /\ exc[c] = [at |-> "compile_spawn", type |-> "FileNotFoundError"]
       /\ Req(c).language = "java"
       /\ Res(c).status = "Compiler Not Found"

(***************************************************************************)
(* C9.  When the interpreter, runtime or compiled artifact of the run      *)
(* phase cannot be launched, execute returns Runtime Not Found, never      *)
(* Accepted, Runtime Error or the internal-error verdict, with no exit     *)
(* code.                                                                   *)
(***************************************************************************)
\* C9 as stated.
C9_RuntimeNotLaunched ==
    \A c \in Calls :
       Returned(c) /\ exc[c].at = "run_spawn" =>
          /\ Res(c).status = "Runtime Not Found"
          /\ Res(c).exit_code = None

\* C9 amended: it holds when the launch fails because the file to execute
\* is not found (FileNotFoundError); any other launch failure gives the
\* internal-error verdict.  In both cases the result has no exit code and
\* is neither Accepted nor Runtime Error.
C9_RuntimeNotFound ==
    \A c \in Calls :
       Returned(c) /\ exc[c].at = "run_spawn" =>
          /\ Res(c).exit_code = None
          /\ Res(c).status \notin {"Accepted", "Runtime Error"}
          /\ process[c].state = "none"
          /\ IF exc[c].type = "FileNotFoundError"
             THEN Res(c).status = "Runtime Not Found" /\ Res(c).status_id = -1
             ELSE InternalError(Res(c))

C9_Witness ==
    \E c \in Calls :
       /\ Returned(c)
       /\ exc[c] = [at |-> "run_spawn", type |-> "FileNotFoundError"]
       /\ Req(c).language = "javascript"
       /\ Res(c).status = "Runtime Not Found"

(***************************************************************************)
(* C10.  In every result the status id is determined by the status text:   *)
(* Accepted 3, Time Limit Exceeded 5, Compilation Error 6, Runtime Error   *)
(* 11, every other verdict a negative id.                                  *)
(***************************************************************************)
C10_StatusIdFromStatus ==
    \A c \in Calls :
       result[c] # None =>
          LET r == Res(c) IN
          /\ r.status = "Accepted" <=> r.status_id = 3
          /\ r.status = "Time Limit Exceeded" <=> r.status_id = 5
          /\ r.status = "Compilation Error" <=> r.status_id = 6
          /\ r.status = "Runtime Error" <=> r.status_id = 11
          /\ r.status_id \in {3, 5, 6, 11} \/ r.status_id < 0

C10_Witness ==
    \E c \in Calls :
       /\ Returned(c)
       /\ exc[c].at = "compile_wait"
       /\ Res(c).status = "Time Limit Exceeded"
       /\ Res(c).status_id = 5

(***************************************************************************)
(* C11.  stdout and stderr are populated only when the run phase           *)
(* executed: a result produced without the run process having been         *)
(* started and finished has neither.                                       *)
(***************************************************************************)
\* C11 as stated.
C11_OutputOnlyFromRun ==
    \A c \in Calls :
       Returned(c) /\ process[c].state = "none" =>
          Res(c).stdout = None /\ Res(c).stderr = None

\* C11 amended: stdout is populated only when the run process was started
\* and finished.  Without a finished run, a Compilation Error result has
\* neither stdout nor stderr, and every other result (unsupported language,
\* compiler not found, runtime not found, timeout, internal error) carries
\* the engine's own diagnostic in stderr.
C11_StdoutOnlyFromRun ==
    \A c \in Calls :
       result[c] # None =>
          /\ Res(c).stdout # None => RunFinished(c)
          /\ ~RunFinished(c) =>
                /\ Res(c).stdout = None
                /\ Res(c).stderr = None <=> Res(c).status = "Compilation Error"
                /\ Res(c).status \in
                      {"Compilation Error", "Error", "Unsupported",
                       "Compiler Not Found", "Runtime Not Found",
                       "Time Limit Exceeded"}

C11_Witness ==
    \E c \in Calls :
       /\ Returned(c)
       /\ process[c].state = "none"
       /\ Req(c).language = "c"
       /\ Res(c).status = "Compiler Not Found"
       /\ Res(c).stdout = None
       /\ Res(c).stderr # None

(***************************************************************************)
(* C12.  compileOutput is populated only if a compile phase ran for the    *)
(* request (c, cpp or java) and failed; results for python and             *)
(* javascript, and results after a successful compile, never carry it.     *)
(***************************************************************************)
C12_CompileOutputOnlyFromFailedCompile ==
    \A c \in Calls :
       result[c] # None /\ Res(c).compile_output # None =>
          /\ Req(c).language \in {"c", "cpp", "java"}
          /\ CompileFinished(c)
          /\ Get(compile_process[c].returncode) # 0
          /\ process[c].state = "none"

C12_Witness ==
    \E c \in Calls :
       /\ Returned(c)
       /\ Req(c).language = "java"
       /\ compile_process[c].returncode = Some(1)
       /\ Res(c).compile_output = Some(<<"h", "i", "\n">>)

(***************************************************************************)
(* C13.  exitCode is absent whenever no process of the reported phase was  *)
(* started, and when present it is the exit code of the process whose      *)
(* outcome determined the verdict: the compiler for Compilation Error, the *)
(* run process for Accepted and Runtime Error.                             *)
(***************************************************************************)
C13_ExitCodeOfDecidingProcess ==
    \A c \in Calls :
       result[c] # None =>
          LET r == Res(c) IN
          /\ compile_process[c].state = "none" /\ process[c].state = "none"
                => r.exit_code = None
          /\ r.status \in {"Error", "Unsupported", "Compiler Not Found",
                           "Runtime Not Found"}
                => r.exit_code = None
          /\ r.exit_code # None =>
                \/ /\ r.status = "Compilation Error"
                   /\ CompileFinished(c)
                   /\ r.exit_code = compile_process[c].returncode
                \/ /\ r.status \in {"Accepted", "Runtime Error"}
                   /\ RunFinished(c)
                   /\ r.exit_code = process[c].returncode

C13_Witness ==
    \E c \in Calls :
       /\ Returned(c)
       /\ Req(c).language = "c"
       /\ Res(c).status = "Compilation Error"
       /\ Res(c).exit_code = Some(1)
       /\ compile_process[c].returncode = Some(1)

(***************************************************************************)
(* C14.  Every execute call eventually returns a result, whatever the      *)
(* submitted program does.                                                 *)
(***************************************************************************)
\* The event loop resumes a coroutine whose awaited step can complete: the
\* spawn steps always can, and each wait completes by the exit of the
\* process or by the timer of wait_for.
FairSpec ==
    /\ Spec
    /\ \A c \in Calls :
          /\ WF_vars(CompileSpawn(c))
          /\ WF_vars(CompileWait(c))
          /\ WF_vars(RunSpawn(c))
          /\ WF_vars(RunWait(c))

\* C14 as stated: every call that was made eventually returns a result.
C14_EveryCallReturnsResult ==
    \A c \in Calls : (request[c] # None) ~> (result[c] # None)

(***************************************************************************)
(* C15.  In check_solution a test case is reported as passed only if its   *)
(* execution verdict is Accepted, and only such cases are counted in the   *)
(* passed count, whatever the expected output is.                          *)
(***************************************************************************)
\* C15 as stated.
C15_PassedOnlyIfAccepted ==
    /\ \A k \in 1..Len(results) :
          results[k].passed => results[k].status = "Accepted"
    /\ passed <= Cardinality({k \in 1..Len(results) :
                                results[k].status = "Accepted"})

(***************************************************************************)
(* C16.  check_solution does not short-circuit: for N test cases and every *)
(* combination of per-case outcomes, execute_code is invoked exactly once  *)
(* per case and the report contains exactly N entries.                     *)
(***************************************************************************)
\* C16 as stated: once check_solution has ended, N calls were made and a
\* report with N entries was returned.
C16_NoShortCircuit ==
    cs_pc \in {"done", "raised"} =>
       /\ Len(executed) = Len(GivenCases)
       /\ report # None
       /\ Len(Get(report).results) = Len(GivenCases)

(***************************************************************************)
(* C17.  The report is order-stable: the k-th entry has index k, carries   *)
(* the input and the expected output of the k-th given test case and holds *)
(* the outcome of the execute_code call made with that case's input; the   *)
(* cases are executed in the given order.                                  *)
(***************************************************************************)
\* C17 as stated.
C17_OrderStable ==
    /\ report # None =>
          Get(report).results = results /\ Len(results) = Len(GivenCases)
    /\ \A k \in 1..Len(results) :
          /\ results[k].test_case = k
          /\ results[k].input = GivenCases[k].input
          /\ results[k].expected = GivenCases[k].expected_output
          /\ executed[k].request # None
          /\ Get(executed[k].request).stdin = Some(GivenCases[k].input)
          /\ results[k].status = Outcome(k).status
          /\ results[k].actual = Trimmed(StdoutText(Outcome(k)))

\* C17 amended: the k-th entry has index k, carries the input of the k-th
\* given test case and its expected output with leading and trailing
\* whitespace removed, and holds the outcome of the k-th execute_code call,
\* which was made with that case's input.
C17_OrderStableExpectedStripped ==
    /\ report # None =>
          Get(report).results = results /\ Len(results) = Len(GivenCases)
    /\ \A k \in 1..Len(results) :
          /\ results[k].test_case = k
          /\ results[k].input = GivenCases[k].input
          /\ results[k].expected = Trimmed(GivenCases[k].expected_output)
          /\ executed[k].request # None
          /\ Get(executed[k].request).stdin = Some(GivenCases[k].input)
          /\ results[k].status = Outcome(k).status
          /\ results[k].actual = Trimmed(StdoutText(Outcome(k)))

C17_Witness ==
    /\ report # None
    /\ Len(Get(report).results) = 2
    /\ Get(report).results[1].input # Get(report).results[2].input
    /\ Get(report).results[2].expected # GivenCases[2].expected_output

(***************************************************************************)
(* C18.  In every report, total is the number of given test cases, passed  *)
(* is the number of entries with passed = true, and all_passed is true     *)
(* exactly when passed = total.                                            *)
(***************************************************************************)
C18_ReportCounts ==
    report # None =>
       LET r == Get(report) IN
       /\ r.total = Len(GivenCases)
       /\ r.passed = Cardinality({k \in 1..Len(r.results) :
                                    r.results[k].passed})
       /\ 0 <= r.passed /\ r.passed <= r.total
       /\ r.all_passed <=> r.passed = r.total

C18_Witness ==
    /\ report # None
    /\ Get(report).total = 2
    /\ Get(report).passed = 1
    /\ ~Get(report).all_passed

(***************************************************************************)
(* C19.  A test case whose execution is Accepted is marked passed if and   *)
(* only if the run's stdout without its leading and trailing whitespace    *)
(* equals the expected output without its leading and trailing whitespace; *)
(* nothing else is normalised.                                             *)
(***************************************************************************)
C19_PassedIffStrippedEqual ==
    \A k \in 1..Len(results) :
       results[k].status = "Accepted" =>
          (results[k].passed <=>
              Trimmed(StdoutText(Outcome(k)))
                 = Trimmed(GivenCases[k].expected_output))

C19_Witness ==
    \E k \in 1..Len(results) :
       /\ results[k].status = "Accepted"
       /\ results[k].passed
       /\ StdoutText(Outcome(k)) = <<"h", "i", "\n">>
       /\ GivenCases[k].expected_output = <<" ", "h", "i">>

(***************************************************************************)
(* C20.  For a test case whose verdict is not Accepted the error field of  *)
(* its entry is the result's stderr when that is non-empty, otherwise its  *)
(* compile_output; a Compilation Error case has a non-empty error.         *)
(***************************************************************************)
C20_ErrorCarriesDiagnostic ==
    \A k \in 1..Len(results) :
       results[k].status # "Accepted" =>
          LET r == Outcome(k) IN
          /\ results[k].error =
                IF r.stderr # None /\ Get(r.stderr) # <<>>
                THEN r.stderr ELSE r.compile_output
          /\ results[k].status = "Compilation Error" =>
                results[k].error # None /\ Get(results[k].error) # <<>>

C20_Witness ==
    \E k \in 1..Len(results) :
       /\ results[k].status = "Compilation Error"
       /\ results[k].error = Some(<<"Compilation failed">>)
       /\ Outcome(k).stderr = None

(***************************************************************************)
(* C21.  Two execute calls that run concurrently do not interfere: each    *)
(* call's result is the outcome of its own source and stdin, equal to what *)
(* the call would return if it ran alone.                                  *)
(***************************************************************************)
C21_NoInterference ==
    \A c \in Calls :
       /\ compile_process[c].state # "none" =>
             compile_process[c].image = Some(Req(c).source_code)
       /\ process[c].state # "none" =>
             process[c].image = Some(Req(c).source_code)
       /\ process[c].input # None =>
             process[c].input = EncodedStdin(Req(c).stdin)
       /\ Returned(c) => Res(c) = OwnOutcome(c)

C21_Witness ==
    /\ BothCalled
    /\ \A c \in Calls : Returned(c) /\ RunFinished(c)
    /\ \E c, o \in Calls :
          /\ Req(c).language = Req(o).language
          /\ Req(c).source_code # Req(o).source_code
          /\ Res(c).status = "Accepted"
          /\ Res(o).status = "Runtime Error"

(***************************************************************************)
(* C22.  The workspace directories held by the in-flight execute calls are *)
(* pairwise distinct, each call writes, compiles, runs and deletes only    *)
(* inside the directory it created, and the cleanup of one call never      *)
(* removes the workspace of another in-flight call.                        *)
(***************************************************************************)
C22_WorkspaceOwned ==
    /\ \A c, o \in Calls :
          c # o /\ InFlight(c) /\ InFlight(o) => temp_dir[c] # temp_dir[o]
    /\ \A c \in Calls :
          InFlight(c) =>
             /\ temp_dir[c] # None
             /\ Get(temp_dir[c]) \in dirs
             /\ files[SourceFile(Req(c).language, Get(temp_dir[c]))]
                   = Some(Req(c).source_code)
    /\ \A c \in Calls :
          /\ compile_process[c].state # "none" =>
                /\ compile_process[c].cwd = Get(temp_dir[c])
                /\ CompilerInput(compile_process[c].cmd) \in OwnPaths(c)
                /\ CompilerOutput(compile_process[c].cmd,
                                  compile_process[c].cwd) \in OwnPaths(c)
          /\ process[c].state # "none" =>
                /\ process[c].cwd = Get(temp_dir[c])
                /\ RunImage(process[c].cmd) \in OwnPaths(c)
    /\ \A d \in dirs : \E c \in Calls : temp_dir[c] = Some(d)
    /\ \A p \in Paths :
          files[p] # None =>
             \E c \in Calls :
                /\ temp_dir[c] # None
                /\ p \in OwnPaths(c)
                /\ files[p] = Some(Req(c).source_code)

C22_Witness ==
    \E c, o \in Calls :
       /\ c # o
       /\ Returned(c)
       /\ cleanup[c] = "removed"
       /\ Get(temp_dir[c]) \notin dirs
       /\ InFlight(o)
       /\ process[o].state = "running"
       /\ Get(temp_dir[o]) \in dirs

(***************************************************************************)
(* C23.  Within one execute call at most one external process spawned by   *)
(* that call is alive at any time, the compile process (if any) has        *)
(* finished before the run process is started, and each phase is attempted *)
(* at most once per request.                                               *)
(***************************************************************************)
\* A process that was spawned is never replaced by another spawn: its
\* command stays and its state only moves from running to exited.
SpawnedOnce(p, q) ==
    /\ p.state = "running" =>
          /\ q.state \in {"running", "exited"}
          /\ q.cmd = p.cmd /\ q.cwd = p.cwd /\ q.image = p.image
    /\ p.state = "exited" => q = p

C23_OneProcessAtATime ==
    /\ [](\A c \in Calls :
             /\ ~(compile_process[c].state = "running"
                     /\ process[c].state = "running")
             /\ process[c].state # "none" =>
                   /\ compile_process[c].state \in {"none", "exited"}
                   /\ lang_config[Req(c).language].compile # <<>> =>
                         compile_process[c].returncode = Some(0))
    /\ [][\A c \in Calls :
             /\ SpawnedOnce(compile_process[c], compile_process'[c])
             /\ SpawnedOnce(process[c], process'[c])]_vars

C23_Witness ==
    \E c \in Calls :
       /\ Returned(c)
       /\ Req(c).language = "java"
       /\ compile_process[c].state = "exited"
       /\ process[c].state = "exited"
       /\ Res(c).status = "Accepted"

(***************************************************************************)
(* C24.  A failure to delete the workspace never fails the request: when   *)
(* deletion raises, execute still returns the verdict and result fields it *)
(* had computed before the cleanup, and raises nothing to the caller.      *)
(***************************************************************************)
C24_CleanupFailureSwallowed ==
    \A c \in Calls :
       cleanup[c] = "failed" =>
          /\ pc[c] = "returned"
          /\ result[c] # None
          /\ Res(c) = OwnOutcome(c)

C24_Witness ==
    \E c \in Calls :
       /\ cleanup[c] = "failed"
       /\ Get(temp_dir[c]) \in dirs
       /\ Returned(c)
       /\ Res(c).status = "Runtime Error"
       /\ Res(c).exit_code = Some(1)

AbsentAndEmpty(c, o) ==
    /\ Returned(c) /\ Returned(o)
    /\ Req(c).source_code = Req(o).source_code
    /\ Req(c).language = Req(o).language
    /\ Req(c).stdin = None
    /\ Req(o).stdin = Some(<<>>)
    /\ exc[c] = exc[o]

\* The launch failure of a native executable names its path, which lies in
\* the call's own directory; every other result is free of the directory.
C26_AbsentStdinIsEmpty ==
    \A c, o \in Calls :
       AbsentAndEmpty(c, o) =>
          /\ process[c].input = process[o].input
          /\ process[c].input = None
          /\ Res(c).status = Res(o).status
          /\ exc[c].at # "run_spawn" => Res(c) = Res(o)

C26_Witness ==
    \E c, o \in Calls :
       /\ AbsentAndEmpty(c, o)
       /\ RunFinished(c) /\ RunFinished(o)
       /\ Res(c).status = "Accepted"
       /\ Res(c).stdout = Some(<<"h", "i", "\n">>)
       /\ Res(o) = Res(c)

(***************************************************************************)
(* C27.  When the compile process of a c, cpp or java request does not     *)
(* finish within the 30 second compile deadline, execute returns Time      *)
(* Limit Exceeded (status id 5), never starts the run phase, and still     *)
(* deletes the workspace.                                                  *)
(***************************************************************************)
\* The call has returned and its compiler was started but could not exit
\* before the timer of the compile wait fired.
CompileTimedOut(c) ==
    /\ Returned(c)
    /\ compile_process[c].state # "none"
    /\ ~ExitsInTime(CompileBehaviour(c).compile_halts,
                    CompileBehaviour(c).compile_secs, CompileTimeout)

\* C27 as stated.
C27_CompileTimeoutDeletes ==
    \A c \in Calls :
       CompileTimedOut(c) =>
          /\ Res(c).status = "Time Limit Exceeded"
          /\ Res(c).status_id = 5
          /\ process[c].state = "none"
          /\ Get(temp_dir[c]) \notin dirs

\* C27 amended: the verdict is Time Limit Exceeded (5), the run phase is
\* never started and the deletion of the workspace is attempted; the
\* directory is gone unless that deletion itself failed.
C27_CompileTimeout ==
    \A c \in Calls :
       CompileTimedOut(c) =>
          /\ Req(c).language \in {"c", "cpp", "java"}
          /\ Res(c).status = "Time Limit Exceeded"
          /\ Res(c).status_id = 5
          /\ process[c].state = "none"
          /\ cleanup[c] \in {"removed", "failed"}
          /\ cleanup[c] = "removed" => Get(temp_dir[c]) \notin dirs

C27_Witness ==
    \E c \in Calls :
       /\ CompileTimedOut(c)
       /\ Req(c).language = "cpp"
       /\ compile_process[c].state = "running"
       /\ Res(c).status_id = 5
       /\ cleanup[c] = "removed"

(***************************************************************************)
(* C28.  In submit_code a submission is marked correct, and XP is added to *)
(* the user, only if the execution verdict is Accepted (status id 3); for  *)
(* every other verdict is_correct is false, xp_earned is 0 and the user's  *)
(* total XP is left unchanged.                                             *)
(***************************************************************************)
C28_XpOnlyIfAccepted ==
    sc_args # None =>
       LET user == ScArgs.current_user
           others == Users \ {user.id}
       IN  /\ \A u \in others : users[u] = NewUser
           /\ sc_pc # "done" => users[user.id].total_xp = user.total_xp
           /\ sc_pc = "done" =>
                 LET r == Res(HarnessCall)
                     s == Get(submission)
                 IN  /\ s.is_correct => r.status_id = 3 /\ r.status = "Accepted"
                     /\ users[user.id].total_xp # user.total_xp =>
                           r.status_id = 3 /\ s.is_correct
                     /\ r.status_id # 3 =>
                           /\ ~s.is_correct
                           /\ s.xp_earned = 0
                           /\ users[user.id].total_xp = user.total_xp
                     /\ users[user.id].total_xp = user.total_xp + s.xp_earned

C28_Witness ==
    /\ sc_pc = "done"
    /\ Res(HarnessCall).status_id = 3
    /\ Get(submission).is_correct
    /\ Get(submission).xp_earned = 10
    /\ users[ScArgs.current_user.id].total_xp = 10

(***************************************************************************)
(* C29.  Over any sequence of create_duel, accept_duel, submit_duel_answer *)
(* and finish_duel calls on one duel, the winner's 50 XP reward and the    *)
(* duel win/loss statistics update are applied at most once.               *)
(***************************************************************************)
\* C29 as stated: all users start with no XP and no duel statistics, so
\* one reward leaves at most 50 XP, one win and one loss.
C29_RewardAtMostOnce ==
    \A u \in Users :
       /\ users[u].total_xp <= 50
       /\ users[u].duels_won <= 1
       /\ users[u].duels_lost <= 1

(***************************************************************************)
(* C30.  A duel's status only moves forward (waiting, in progress,         *)
(* completed); accept_duel succeeds only on a waiting duel; the scores     *)
(* change only through submit_duel_answer on an in-progress duel, each     *)
(* correct answer raising exactly one of the two scores by exactly 1.      *)
(***************************************************************************)
Rank(status) ==
    CASE status = "waiting" -> 0
      [] status = "in_progress" -> 1
      [] status = "completed" -> 2

\* One step on an existing duel, from row d to row e, ending in operation o.
DuelStep(d, e, o) ==
    /\ Rank(e.status) >= Rank(d.status)
    /\ e.challenger_id = d.challenger_id
    /\ o.op = "accept_duel" /\ o.ok =>
          d.status = "waiting" /\ e.status = "in_progress"
    /\ o.op = "accept_duel" /\ d.status # "waiting" => ~o.ok /\ e = d
    /\ <<e.challenger_score, e.opponent_score>>
          # <<d.challenger_score, d.opponent_score>> =>
          /\ o.op = "submit_duel_answer" /\ o.ok /\ o.is_correct
          /\ d.status = "in_progress"
    /\ o.op = "submit_duel_answer" /\ o.ok /\ o.is_correct =>
          \/ /\ e.challenger_score = d.challenger_score + 1
             /\ e.opponent_score = d.opponent_score
          \/ /\ e.challenger_score = d.challenger_score
             /\ e.opponent_score = d.opponent_score + 1

C30_DuelMovesForward ==
    [][/\ duel # None => duel' # None /\ DuelStep(Get(duel), Get(duel'), last_op')
       /\ duel = None /\ duel' # None =>
             /\ last_op'.op = "create_duel"
             /\ Get(duel').status = "waiting"
             /\ Get(duel').challenger_score = 0
             /\ Get(duel').opponent_score = 0]_vars

C30_Witness ==
    /\ duel # None
    /\ Get(duel).status = "completed"
    /\ Get(duel).challenger_score = 1
    /\ Get(duel).opponent_score = 2
    /\ last_op = Op("accept_duel", FALSE, FALSE)

====
